---- MODULE Spec2Model ----
(***************************************************************************)
(* Model of the UDP hardware harness (src/drone_tool.py):                  *)
(*   - DroneProtocol: build_packet, parse_frame, calculate_checksum        *)
(*   - HardwareClient: connect, send_command, _flush_queue, close and the  *)
(*     receive callback TransportProtocol.datagram_received                *)
(*   - DroneScanner.scan_opcodes                                           *)
(* Byte strings are sequences of integers 0..255 (1-based in TLA+, the     *)
(* Python offsets are 0-based: data[2] is data[3] here).                   *)
(***************************************************************************)
EXTENDS Integers, Sequences, FiniteSets, TLC

(***************************************************************************)
(* Bounds of the model.                                                    *)
(***************************************************************************)
\* longest payload enumerated exhaustively over PayloadBytes
MaxPayloadLen == 2
\* longest raw (arbitrary) input handed to parse_frame
MaxRawLen == 6
\* HardwareClient.timeout, in clock ticks
TimeoutTicks == 2
\* largest `retries` a caller passes to send_command
MaxRetries == 1
\* most datagrams held by the inbound queue (asyncio.Queue is unbounded)
MaxQueue == 2
\* most sockets one client opens in a run
MaxSockets == 2
\* datagrams that arrive between two ticks of the clock, at most
MaxBurst == 2
\* datagram arrivals recorded when the receive filter is checked on its own
MaxArrivals == 3

(***************************************************************************)
(* Program constants.                                                      *)
(***************************************************************************)
\* DroneProtocol.HEADER = 0x55
HEADER == 85
\* struct format "B": an unsigned byte, 0..255
ByteMax == 255
\* scan_opcodes: range(0, 256)
NumOpcodes == 256
\* mock_device.py: HEADER = 0x55
MockHEADER == 85

Byte == 0..ByteMax

Min(a, b) == IF a < b THEN a ELSE b
Max(a, b) == IF a > b THEN a ELSE b

(***************************************************************************)
(* Python helpers.                                                         *)
(***************************************************************************)
\* a ^ b on non-negative integers, bit by bit
RECURSIVE XorBits(_, _)
XorBits(a, b) ==
    IF a = 0 THEN b
    ELSE IF b = 0 THEN a
    ELSE ((a + b) % 2) + 2 * XorBits(a \div 2, b \div 2)

\* a ^ b on bytes, tabulated once
XorTable == [a \in Byte |-> [b \in Byte |-> XorBits(a, b)]]
Xor(a, b) == XorTable[a][b]

\* s[i:j] with 0-based offsets, clamped to the sequence as Python does
Slice(s, i, j) == SubSeq(s, Min(i, Len(s)) + 1, Min(j, Len(s)))

\* s[i:]
SliceFrom(s, i) == Slice(s, i, Len(s))

(***************************************************************************)
(* DroneProtocol                                                           *)
(***************************************************************************)
\* the loop of calculate_checksum from the byte at (1-based) position i on,
\* chk being the checksum of the bytes before it; four iterations are taken
\* per level where four bytes remain (same order, shallower recursion)
RECURSIVE XorFold(_, _, _)
XorFold(chk, data, i) ==
    IF i > Len(data) THEN chk
    ELSE LET n    == IF i + 3 <= Len(data) THEN 4 ELSE 1
             c1   == Xor(chk, data[i])
             next == IF n = 1 THEN c1
                     ELSE Xor(Xor(Xor(c1, data[i + 1]), data[i + 2]), data[i + 3])
         IN  \* the comparison makes TLC compute next before it recurses
             IF next >= 0 THEN XorFold(next, data, i + n) ELSE next

\* mutant of calculate_checksum: the checksum covers the payload only
calculate_checksum_payload_only(data) == XorFold(0, data, 4)

\* chk = 0; for b in data: chk ^= b
calculate_checksum(data) == XorFold(0, data, 1)

\* struct.pack("<BBB", HEADER, length, opcode) raises struct.error when a
\* value does not fit an unsigned byte
BuildRaises(opcode, payload) ==
    \/ 1 + Len(payload) > ByteMax
    \/ opcode \notin Byte

\* mutant of build_packet: the length byte counts the payload only
build_packet_len_payload_only(opcode, payload) ==
    LET length == Len(payload)
        body   == <<HEADER, length, opcode>> \o payload
        chk    == XorFold(0, body, 1)
    IN  Append(body, chk)

build_packet(opcode, payload) ==
    LET length == 1 + Len(payload)
        body   == <<HEADER, length, opcode>> \o payload
        chk    == calculate_checksum(body)
    IN  Append(body, chk)

\* The f-string messages of parse_frame: their kind and the numbers they carry.
Msg(kind, a, b) == [kind |-> kind, a |-> a, b |-> b]

Frame(header, length, opcode, payload, checksum, raw, is_valid, error_msg, trailing) ==
    [header |-> header, length |-> length, opcode |-> opcode,
     payload |-> payload, checksum |-> checksum, raw |-> raw,
     is_valid |-> is_valid, error_msg |-> error_msg,
     trailing_data |-> trailing]

\* mutant of TooShort: the minimum frame size is taken to be 3
TooShort_min3(data) == Len(data) < 3

\* if len(data) < 4
TooShort(data) == Len(data) < 4

\* expected_total = 1 + 1 + length + 1
ExpectedTotal(length) == 1 + 1 + length + 1

\* mutant of PayloadOf: the payload is taken to be `length` bytes long
PayloadOf_len_bytes(frame_data, length) == Slice(frame_data, 3, 3 + length)

\* payload_len = max(0, length - 1); payload = frame_data[3 : 3 + payload_len]
PayloadOf(frame_data, length) ==
    LET payload_len == Max(0, length - 1)
    IN  Slice(frame_data, 3, 3 + payload_len)

\* mutant of Verdict: the checksum is checked before the header
Verdict_checksum_first(header, received_chk, calc_chk) ==
    IF calc_chk # received_chk THEN
        [is_valid |-> FALSE, error_msg |-> Msg("Bad Checksum", received_chk, calc_chk)]
    ELSE IF ~(header = HEADER) THEN
        [is_valid |-> FALSE, error_msg |-> Msg("Bad Header", header, 0)]
    ELSE
        [is_valid |-> TRUE, error_msg |-> Msg("OK", 0, 0)]

\* the two checks after extraction, in the order of the code: the header
\* first, then the checksum
Verdict(header, received_chk, calc_chk) ==
    IF ~(header = HEADER) THEN
        [is_valid |-> FALSE, error_msg |-> Msg("Bad Header", header, 0)]
    ELSE IF calc_chk # received_chk THEN
        [is_valid |-> FALSE, error_msg |-> Msg("Bad Checksum", received_chk, calc_chk)]
    ELSE
        [is_valid |-> TRUE, error_msg |-> Msg("OK", 0, 0)]

\* mutant of TrailingOf: the bytes after the frame are not kept
TrailingOf_dropped(data, expected_total) == <<>>

\* trailing = data[expected_total:] (line 205)
TrailingOf(data, expected_total) == SliceFrom(data, expected_total)

parse_frame(data) ==
    IF data = <<>> THEN
        Frame(0, 0, 0, <<>>, 0, <<>>, FALSE, Msg("Empty Data", 0, 0), <<>>)
    ELSE IF TooShort(data) THEN
        Frame(0, 0, 0, <<>>, 0, data, FALSE,
              Msg("Frame too short", Len(data), 0), <<>>)
    ELSE
        LET header         == data[1]
            length         == data[2]
            expected_total == ExpectedTotal(length)
        IN  IF Len(data) < expected_total THEN
                Frame(header, length, 0, <<>>, 0, data, FALSE,
                      Msg("Truncated", expected_total, Len(data)), <<>>)
            ELSE
                LET frame_data   == Slice(data, 0, expected_total)
                    trailing     == TrailingOf(data, expected_total)
                    opcode       == frame_data[3]
                    received_chk == frame_data[Len(frame_data)]
                    payload      == PayloadOf(frame_data, length)
                    body         == Slice(frame_data, 0, Len(frame_data) - 1)
                    calc_chk     == calculate_checksum(body)
                    verdict      == Verdict(header, received_chk, calc_chk)
                IN  Frame(header, length, opcode, payload, received_chk,
                          frame_data, verdict.is_valid, verdict.error_msg, trailing)

\* the characters of bytes.hex() and hex(): digit d is HexChars[d + 1]
HexChars == <<"0", "1", "2", "3", "4", "5", "6", "7",
              "8", "9", "a", "b", "c", "d", "e", "f">>

\* bytes.hex(): two lower-case characters for each byte
HexLower(bytes) ==
    [i \in 1..(2 * Len(bytes)) |->
        IF i % 2 = 1 THEN HexChars[(bytes[(i + 1) \div 2] \div 16) + 1]
        ELSE HexChars[(bytes[i \div 2] % 16) + 1]]

\* hex(n) of a byte: "0x" and its digits without leading zeros
HexOf(n) ==
    IF n < 16 THEN <<"0", "x", HexChars[n + 1]>>
    ELSE <<"0", "x", HexChars[(n \div 16) + 1], HexChars[(n % 16) + 1]>>

\* 2^n for the exponents the float conversions need
RECURSIVE TwoTo(_)
TwoTo(n) == IF n = 0 THEN 1 ELSE 2 * TwoTo(n - 1)

\* q rounded to the nearest integer, ties to the even one, for q = n / d
RoundHalfEven(n, d) ==
    LET fl  == n \div d
        rem == n % d
    IN  IF 2 * rem < d THEN fl
        ELSE IF 2 * rem > d THEN fl + 1
        ELSE IF fl % 2 = 0 THEN fl ELSE fl + 1

\* round(alt, 2) of the binary32 value struct.unpack reads from four
\* little-endian bytes. NaN and the infinities stay what they are; a value
\* of magnitude 2^24 or more is an integer and stays what it is (kept as
\* significand and power of two); any other value becomes a number of
\* hundredths, correctly rounded from its exact value.
RoundedFloat32(b) ==
    LET sign == b[4] \div 128
        exp  == (b[4] % 128) * 2 + (b[3] \div 128)
        mant == (b[3] % 128) * 65536 + b[2] * 256 + b[1]
        sig  == IF exp = 0 THEN mant ELSE 8388608 + mant
        down == IF exp = 0 THEN 149 ELSE 150 - exp
    IN  IF exp = 255 THEN
            [class |-> IF mant = 0 THEN "inf" ELSE "nan", sign |-> sign,
             significand |-> 0, power |-> 0, hundredths |-> 0]
        ELSE IF exp > 150 THEN
            [class |-> "integer", sign |-> sign,
             significand |-> sig, power |-> exp - 150, hundredths |-> 0]
        ELSE IF down > 31 THEN
            [class |-> "decimal", sign |-> sign,
             significand |-> 0, power |-> 0, hundredths |-> 0]
        ELSE IF down = 31 THEN
            [class |-> "decimal", sign |-> sign, significand |-> 0, power |-> 0,
             hundredths |-> RoundHalfEven(sig * 50, TwoTo(30))]
        ELSE
            [class |-> "decimal", sign |-> sign, significand |-> 0, power |-> 0,
             hundredths |-> RoundHalfEven(sig * 100, TwoTo(down))]

\* struct.calcsize("<BHfB")
TelemetrySize == 1 + 2 + 4 + 1

\* mutant of decode_telemetry: the voltage is read big-endian
decode_telemetry_voltage_be(payload) ==
    IF Len(payload) # TelemetrySize THEN
        [error |-> "size_mismatch", raw |-> HexLower(payload)]
    ELSE
        [battery  |-> payload[1],
         voltage  |-> payload[2] * 256 + payload[3],
         altitude |-> RoundedFloat32(SubSeq(payload, 4, 7)),
         errors   |-> HexOf(payload[8])]

\* DroneProtocol.decode_telemetry. struct.unpack of 8 bytes with "<BHfB" and
\* round(alt, 2) raise for no input, so the except branch is never taken.
decode_telemetry(payload) ==
    IF Len(payload) # TelemetrySize THEN
        [error |-> "size_mismatch", raw |-> HexLower(payload)]
    ELSE
        [battery  |-> payload[1],
         voltage  |-> payload[2] + 256 * payload[3],
         altitude |-> RoundedFloat32(SubSeq(payload, 4, 7)),
         errors   |-> HexOf(payload[8])]

(***************************************************************************)
(* State.                                                                  *)
(***************************************************************************)
VARIABLES
    \* codec harness: the inputs, the bytes handed to parse_frame, its result
    cPc, cOp, cPayload, cData, cFrame, cArg,
    \* codec harness: the value returned by decode_telemetry, or by the mock
    cOut,
    \* HardwareClient: self.transport (0 is None, else the socket's number),
    \* every socket opened so far with the number of times it was closed,
    \* self._rx_queue
    transport, socks, rx_queue,
    \* the caller's position: in send_command, between calls, in the scan
    \* loop; and who send_command returns to: "user" or "scan"
    pc, caller,
    \* send_command: its arguments and locals; elapsed is
    \* time.monotonic() - start_time, waitLeft the time left of the pending
    \* asyncio.wait_for, result the value returned
    packet, retries, expected_opcode, attempt, elapsed, waitLeft, result,
    \* history of the current send_command call: ticks since it was entered,
    \* packets transmitted, whether a datagram was dropped as mismatched,
    \* whether a flush discarded a datagram, and the first datagram queued
    \* within the current attempt's time that the filter is meant to return
    callElapsed, txCount, sawMismatch, flushedAny, firstOk,
    \* the network: datagrams arrived since the clock last advanced while
    \* send_command waits
    burst,
    \* what is at the other end: "any" (an arbitrary device and network) or
    \* "mock" (MockDrone behind a network that loses nothing); the datagrams
    \* in flight to the mock and from it
    device, toDevice, toClient,
    \* history: the datagrams that arrived at the socket, with their sender
    \* (recorded where the receive filter is checked on its own)
    arrived,
    \* scan_opcodes: the loop variable, the Opcode column of the rows written
    \* so far, the row written in the current pass of the loop
    op, rowOps, row

codecVars == <<cPc, cOp, cPayload, cData, cFrame, cArg, cOut>>
sockVars == <<transport, socks>>
callVars == <<packet, retries, expected_opcode, attempt, elapsed, waitLeft, result,
              callElapsed, txCount, sawMismatch, flushedAny, firstOk, burst>>
scanVars == <<op, rowOps, row>>
netVars == <<device, toDevice, toClient, arrived>>
vars == <<codecVars, sockVars, rx_queue, pc, caller, callVars, scanVars, netVars>>

clientVars == <<sockVars, rx_queue, pc, caller, callVars, scanVars, netVars>>

(***************************************************************************)
(* HardwareClient                                                          *)
(***************************************************************************)
\* Optional[...]: None and a present value
None == <<>>
Some(x) == <<x>>

\* self.target, the configured peer (ip, port); the senders of datagrams:
\* the peer, another port of its host, its port on another host
Peer == <<"127.0.0.1", 8889>>
Addrs == {Peer, <<"127.0.0.1", 8890>>, <<"127.0.0.2", 8889>>}

\* A queued datagram. stale and pulled are history, not program state:
\* stale: it was in the queue when a packet was transmitted;
\* pulled: it has been taken from the queue by send_command before.
Entry(data) == [data |-> data, stale |-> FALSE, pulled |-> FALSE]

NoResult == [kind |-> "pending", entry |-> Entry(<<>>)]
NoneResult == [kind |-> "none", entry |-> Entry(<<>>)]
RaisedResult == [kind |-> "raised", entry |-> Entry(<<>>)]
DataResult(e) == [kind |-> "data", entry |-> e]

\* mutant of datagram_received: only the sender's host is compared
datagram_received_host_only(queue, data, addr) ==
    IF addr[1] # Peer[1] THEN queue
    ELSE IF data = <<>> THEN queue
    ELSE Append(queue, Entry(data))

\* TransportProtocol.datagram_received: the queue after the callback
datagram_received(queue, data, addr) ==
    IF addr # Peer THEN queue
    ELSE IF data = <<>> THEN queue
    ELSE Append(queue, Entry(data))

\* mutant of flush_queue: nothing is discarded
flush_queue_keeps(queue) == queue

\* _flush_queue: get_nowait() until the queue is empty
flush_queue(queue) == <<>>

\* mutant of RemainingTime: every poll waits a fresh full timeout
RemainingTime_full(el) == TimeoutTicks

\* remaining_time = self.timeout - (time.monotonic() - start_time)
RemainingTime(el) == TimeoutTicks - el

\* mutant of Accepts: any datagram is returned
Accepts_any(data, expected) == TRUE

\* the correlation filter of send_command: whether it returns `data`
Accepts(data, expected) ==
    \/ expected = None
    \/ Len(data) < 3
    \/ data[3] = expected[1]

\* mutant of AfterMismatch: the mismatched datagram is put back for later
AfterMismatch_requeue(rest, e) == Append(rest, e)

\* what is left in the queue after a mismatched datagram `e` was taken: the
\* code logs and forgets it
AfterMismatch(rest, e) == rest

\* history: the datagrams still queued when a packet goes out
MarkStale(queue) == [i \in 1..Len(queue) |-> [queue[i] EXCEPT !.stale = TRUE]]

NoFrame == Frame(0, 0, 0, <<>>, 0, <<>>, FALSE, Msg("none", 0, 0), <<>>)
NoArg == [byte |-> 0, bit |-> 0, k |-> 0]

\* the codec harness is not running
CodecOff ==
    /\ cPc = "off"
    /\ cOp = 0
    /\ cPayload = <<>>
    /\ cData = <<>>
    /\ cFrame = NoFrame
    /\ cArg = NoArg
    /\ cOut = None

\* scan_opcodes: send_command(tx_pkt, retries=1, expected_opcode=op)
ScanRetries == 1

\* mutant of ScanExpected: the probe is sent without an expected opcode
ScanExpected_none(o) == None

\* the expected_opcode argument of the probe for opcode o (line 266)
ScanExpected(o) == Some(o)

\* bytes.hex().upper(): two hexadecimal digits (0..15) for each byte
HexUpper(bytes) ==
    [i \in 1..(2 * Len(bytes)) |->
        IF i % 2 = 1 THEN bytes[(i + 1) \div 2] \div 16 ELSE bytes[i \div 2] % 16]

\* A csv row. An empty cell "" is None; a formatted cell is Some(value).
Row(o, status, rx_len, rx_opcode, payload_hex, trailing, error_msg, rtt) ==
    [opcode_hex |-> o, status |-> status, rx_len |-> rx_len,
     rx_opcode |-> rx_opcode, rx_payload_hex |-> payload_hex,
     trailing_bytes |-> trailing, error_msg |-> error_msg, rtt_ms |-> rtt]

NoRow == Row(0, "none", 0, None, <<>>, None, None, 0)

\* mutant of ScanRowOf: the error message of a valid frame is left out
ScanRowOf_no_message_when_valid(o, rx, rtt) ==
    IF rx.kind = "none" \/ rx.entry.data = <<>> THEN
        Row(o, "TIMEOUT", 0, None, <<>>, None, None, rtt)
    ELSE
        LET frame      == parse_frame(rx.entry.data)
            log_status == IF frame.is_valid THEN "VALID" ELSE "INVALID_FMT"
        IN  Row(o, log_status, Len(frame.raw), Some(frame.opcode),
                HexUpper(frame.payload), Some(Len(frame.trailing_data)),
                IF frame.is_valid THEN None ELSE Some(frame.error_msg), rtt)

\* mutant of ScanRowOf: every response is classified VALID
ScanRowOf_always_valid(o, rx, rtt) ==
    IF rx.kind = "none" \/ rx.entry.data = <<>> THEN
        Row(o, "TIMEOUT", 0, None, <<>>, None, None, rtt)
    ELSE
        LET frame == parse_frame(rx.entry.data)
        IN  Row(o, "VALID", Len(frame.raw), Some(frame.opcode),
                HexUpper(frame.payload), Some(Len(frame.trailing_data)),
                Some(frame.error_msg), rtt)

\* the row written for what send_command returned (lines 269-281)
ScanRowOf(o, rx, rtt) ==
    IF rx.kind = "none" \/ rx.entry.data = <<>> THEN
        Row(o, "TIMEOUT", 0, None, <<>>, None, None, rtt)
    ELSE
        LET frame      == parse_frame(rx.entry.data)
            log_status == IF frame.is_valid THEN "VALID" ELSE "INVALID_FMT"
        IN  Row(o, log_status, Len(frame.raw), Some(frame.opcode),
                HexUpper(frame.payload), Some(Len(frame.trailing_data)),
                Some(frame.error_msg), rtt)

\* mutant of WriteRow: nothing is written for a probe that got no response
WriteRow_skips_timeout(rows, o, rx) ==
    IF rx.kind = "none" THEN rows ELSE Append(rows, o)

\* writer.writerow in either branch of the loop body (lines 270, 277): the
\* Opcode column of the file after the row for opcode o is written
WriteRow(rows, o, rx) == Append(rows, o)

ClientInit ==
    /\ transport = 0
    /\ socks = <<>>
    /\ rx_queue = <<>>
    /\ packet = <<>>
    /\ retries = 0
    /\ expected_opcode = None
    /\ attempt = 0
    /\ elapsed = 0
    /\ waitLeft = 0
    /\ result = NoResult
    /\ callElapsed = 0
    /\ txCount = 0
    /\ sawMismatch = FALSE
    /\ flushedAny = FALSE
    /\ firstOk = None
    /\ burst = 0

ScanIdle ==
    /\ op = 0
    /\ rowOps = <<>>
    /\ row = NoRow

\* connect(), lines 66-72: a new socket is opened and becomes self.transport
OpenSocket ==
    /\ socks' = Append(socks, 0)
    /\ transport' = Len(socks) + 1

\* self.transport.sendto(packet), line 91: towards the mock the datagram is
\* in flight; what an arbitrary device does with it is its own business
Transmit(p) ==
    /\ toDevice' = IF device = "mock" THEN Append(toDevice, p) ELSE toDevice
    /\ UNCHANGED <<device, toClient, arrived>>

\* send_command returns `res` to its caller. Its locals are gone. Called
\* from scan_opcodes, the loop body runs on without an await up to
\* asyncio.sleep (lines 267-286): the row is written in the same step, and
\* the history of the call ends there, but for sawMismatch.
Return(res) ==
    /\ result' = res
    /\ attempt' = 0
    /\ elapsed' = 0
    /\ waitLeft' = 0
    /\ burst' = 0
    /\ IF caller = "scan"
       THEN /\ row' = ScanRowOf(op, res, callElapsed)
            /\ rowOps' = WriteRow(rowOps, op, res)
            /\ pc' = "sleep"
            /\ callElapsed' = 0
            /\ txCount' = 0
            /\ flushedAny' = FALSE
            /\ firstOk' = None
            /\ UNCHANGED op
       ELSE /\ pc' = "returned"
            /\ UNCHANGED <<scanVars, callElapsed, txCount, flushedAny, firstOk>>

\* One pass of the for loop up to the first poll (lines 89-99): flush,
\* transmit, take start_time, compute the first wait. There is no await in
\* between, so no datagram arrives inside it. sentBefore: the packets this
\* call has transmitted so far; hadFlushed: whether it has discarded a
\* queued datagram so far. Sets every variable of the call but its
\* arguments, attempt and sawMismatch.
BeginAttempt(sentBefore, hadFlushed) ==
    /\ rx_queue' = MarkStale(flush_queue(rx_queue))
    /\ IF transport # 0
       THEN /\ txCount' = sentBefore + 1
            /\ elapsed' = 0
            /\ waitLeft' = Max(0, RemainingTime(0))
            /\ pc' = "wait"
            /\ result' = NoResult
            /\ firstOk' = None
            /\ flushedAny' = (hadFlushed \/ rx_queue # <<>>)
            /\ callElapsed' = callElapsed
            /\ burst' = 0
            /\ Transmit(packet)
            /\ UNCHANGED scanVars
       ELSE /\ Return(NoneResult)
            /\ UNCHANGED netVars

\* send_command entered with its arguments (lines 85-86): connect first when
\* there is no transport, else straight into the first attempt
SendCommandEntry(p, r, x) ==
    /\ packet' = p
    /\ retries' = r
    /\ expected_opcode' = x
    /\ sawMismatch' = FALSE
    /\ burst' = 0
    /\ UNCHANGED sockVars
    /\ IF transport = 0
       THEN /\ pc' = "connecting"
            /\ result' = NoResult
            /\ attempt' = 0
            /\ callElapsed' = 0
            /\ txCount' = 0
            /\ flushedAny' = FALSE
            /\ firstOk' = None
            /\ UNCHANGED <<rx_queue, elapsed, waitLeft, netVars>>
       ELSE /\ attempt' = 0
            /\ Transmit(p)
            /\ rx_queue' = MarkStale(flush_queue(rx_queue))
            /\ txCount' = 1
            /\ elapsed' = 0
            /\ waitLeft' = Max(0, RemainingTime(0))
            /\ pc' = "wait"
            /\ result' = NoResult
            /\ firstOk' = None
            /\ flushedAny' = (rx_queue # <<>>)
            /\ callElapsed' = 0

\* await self.connect() inside send_command: the endpoint is created
ConnectDone ==
    /\ pc = "connecting"
    /\ Len(socks) < MaxSockets
    /\ OpenSocket
    /\ pc' = "connected"
    /\ UNCHANGED <<codecVars, rx_queue, caller, callVars, scanVars, netVars>>

\* await self.connect() inside send_command: create_datagram_endpoint
\* raises, and the exception leaves send_command (and scan_opcodes)
ConnectFails ==
    /\ pc = "connecting"
    /\ pc' = IF caller = "scan" THEN "fatal" ELSE "returned"
    /\ result' = RaisedResult
    /\ UNCHANGED <<codecVars, sockVars, rx_queue, caller, scanVars, packet, retries,
                   expected_opcode, attempt, elapsed, waitLeft, callElapsed,
                   txCount, sawMismatch, flushedAny, firstOk, burst, netVars>>

\* send_command resumes after connect(): the first attempt
FirstAttempt ==
    /\ pc = "connected"
    /\ BeginAttempt(txCount, flushedAny)
    /\ UNCHANGED <<codecVars, sockVars, caller, packet, retries, expected_opcode,
                   attempt, sawMismatch>>

\* mutant of ElapsedAfterMismatch: the attempt's clock restarts
ElapsedAfterMismatch_restart(el) == 0

\* start_time is taken once, before the while loop (line 97): dropping a
\* datagram leaves time.monotonic() - start_time as it is
ElapsedAfterMismatch(el) == el

\* data = await asyncio.wait_for(self._rx_queue.get(), ...) returns a
\* datagram (lines 104-115): return it, or drop it and poll again
WaitRecv ==
    /\ pc = "wait"
    /\ waitLeft > 0
    /\ rx_queue # <<>>
    /\ LET e    == Head(rx_queue)
           rest == Tail(rx_queue)
       IN  IF Accepts(e.data, expected_opcode)
           THEN /\ Return(DataResult(e))
                /\ rx_queue' = rest
                /\ UNCHANGED sawMismatch
           ELSE /\ rx_queue' = AfterMismatch(rest, [e EXCEPT !.pulled = TRUE])
                /\ sawMismatch' = TRUE
                /\ elapsed' = ElapsedAfterMismatch(elapsed)
                /\ waitLeft' = Max(0, RemainingTime(ElapsedAfterMismatch(elapsed)))
                /\ UNCHANGED <<pc, result, scanVars, attempt, callElapsed,
                               txCount, flushedAny, firstOk, burst>>
    /\ UNCHANGED <<codecVars, sockVars, caller, packet, retries, expected_opcode,
                   netVars>>

\* mutant of MoreAttempts: one attempt too many
MoreAttempts_one_extra(a, r) == a <= r

\* for attempt in range(retries + 1): another pass follows attempt a
MoreAttempts(a, r) == a < r

\* the attempt's time is up (remaining_time <= 0, or asyncio.TimeoutError):
\* the next attempt, or return None after the last one (lines 100-101,
\* 117-125)
WaitTimeout ==
    /\ pc = "wait"
    /\ waitLeft <= 0
    /\ IF MoreAttempts(attempt, retries)
       THEN /\ attempt' = attempt + 1
            /\ BeginAttempt(txCount, flushedAny)
       ELSE /\ Return(NoneResult)
            /\ UNCHANGED <<rx_queue, netVars>>
    /\ UNCHANGED <<codecVars, sockVars, caller, packet, retries, expected_opcode,
                   sawMismatch>>

\* The clock advances while send_command is suspended in wait_for with
\* nothing to take from the queue.
Tick ==
    /\ pc = "wait"
    /\ rx_queue = <<>>
    /\ waitLeft > 0
    /\ callElapsed <= (MaxRetries + 1) * TimeoutTicks
    /\ elapsed' = elapsed + 1
    /\ waitLeft' = waitLeft - 1
    /\ callElapsed' = callElapsed + 1
    /\ burst' = 0
    /\ UNCHANGED <<codecVars, sockVars, rx_queue, pc, caller, scanVars, packet,
                   retries, expected_opcode, attempt, result, txCount, sawMismatch,
                   flushedAny, firstOk, netVars>>

\* history: an attempt of send_command is waiting and its time is not up
InTime == pc = "wait" /\ waitLeft > 0

\* history: the datagrams a call with this expected opcode is meant to
\* return: any when no opcode is expected, else those too short to carry an
\* opcode and those whose byte at offset 2 is the expected opcode
Wanted(data, expected) ==
    IF expected = None THEN TRUE
    ELSE IF Len(data) >= 3 THEN data[3] = expected[1]
    ELSE TRUE

\* A datagram arrives on the open socket: the event loop runs
\* datagram_received whenever the caller is suspended or between calls.
\* Finitely many arrive in a unit of time.
Receive(data, addr) ==
    /\ transport # 0
    /\ pc \notin {"done", "fatal"}
    /\ Len(rx_queue) < MaxQueue
    /\ (pc = "wait") => (burst < MaxBurst)
    /\ burst' = IF pc = "wait" THEN burst + 1 ELSE burst
    /\ rx_queue' = datagram_received(rx_queue, data, addr)
    /\ firstOk' = IF /\ firstOk = None
                     /\ InTime
                     /\ Len(rx_queue') > Len(rx_queue)
                     /\ Wanted(data, expected_opcode)
                  THEN Some(data)
                  ELSE firstOk
    /\ UNCHANGED <<codecVars, sockVars, pc, caller, scanVars, packet, retries,
                   expected_opcode, attempt, elapsed, waitLeft, result,
                   callElapsed, txCount, sawMismatch, flushedAny>>

(***************************************************************************)
(* A single caller of one client: connect(), send_command(), close() in    *)
(* any order, and any datagrams from the network.                          *)
(***************************************************************************)
\* OpCode.GET_STATUS, OpCode.GET_TELEMETRY
CallOps == {16, 17}

\* a frame whose checksum byte is wrong
BadChecksumFrame(opcode) ==
    LET good == build_packet(opcode, <<>>)
    IN  [good EXCEPT ![Len(good)] = Xor(good[Len(good)], ByteMax)]

\* what the network may deliver: replies to both known opcodes, a 2-byte
\* datagram, a frame with a bad checksum, a zero-length keepalive
Datagrams ==
    {build_packet(16, <<1>>), build_packet(17, <<>>), <<HEADER, 1>>,
     BadChecksumFrame(17), <<>>}

Between == pc \in {"idle", "returned"}

\* mutant of AlreadyConnected: connect() never finds a socket
AlreadyConnected_never(t) == FALSE

\* if self.transport: return (line 63)
AlreadyConnected(t) == t # 0

\* the caller calls connect() (lines 62-73)
CallConnect ==
    /\ Between
    /\ IF AlreadyConnected(transport)
       THEN UNCHANGED sockVars
       ELSE /\ Len(socks) < MaxSockets
            /\ OpenSocket
    /\ pc' = "idle"
    /\ UNCHANGED <<codecVars, rx_queue, caller, callVars, scanVars, netVars>>

\* the caller calls send_command(packet, retries, expected_opcode)
CallSendCommand ==
    /\ Between
    /\ \E o \in CallOps, r \in 0..MaxRetries :
          \E x \in {None, Some(o)} :
             SendCommandEntry(build_packet(o, <<>>), r, x)
    /\ UNCHANGED <<codecVars, caller, scanVars>>

\* mutant of TransportAfterClose: close() keeps the handle
TransportAfterClose_kept(t) == t

\* self.transport = None (line 137)
TransportAfterClose(t) == 0

\* the caller calls close() (lines 134-139)
CallClose ==
    /\ Between
    /\ IF transport # 0
       THEN /\ socks' = [socks EXCEPT ![transport] = @ + 1]
            /\ transport' = TransportAfterClose(transport)
       ELSE UNCHANGED sockVars
    /\ rx_queue' = flush_queue(rx_queue)
    /\ pc' = "idle"
    /\ UNCHANGED <<codecVars, caller, callVars, scanVars, netVars>>

Deliver ==
    /\ \E data \in Datagrams, addr \in Addrs : Receive(data, addr)
    /\ UNCHANGED netVars

\* nothing is in flight to or from an arbitrary device
NetAny ==
    /\ device = "any"
    /\ toDevice = <<>>
    /\ toClient = <<>>
    /\ arrived = <<>>

Init ==
    /\ CodecOff
    /\ ClientInit
    /\ ScanIdle
    /\ NetAny
    /\ caller = "user"
    /\ pc = "idle"

Next ==
    \/ CallConnect
    \/ CallSendCommand
    \/ CallClose
    \/ ConnectDone
    \/ ConnectFails
    \/ FirstAttempt
    \/ WaitRecv
    \/ WaitTimeout
    \/ Tick
    \/ Deliver

Spec == Init /\ [][Next]_vars

(***************************************************************************)
(* The receive callback on its own: a connected client between calls, and  *)
(* datagrams from any sender.                                              *)
(***************************************************************************)
\* a datagram arrives, and is recorded with its sender
RxArrive ==
    /\ Len(arrived) < MaxArrivals
    /\ \E data \in Datagrams, addr \in Addrs :
          /\ Receive(data, addr)
          /\ arrived' = Append(arrived, [data |-> data, addr |-> addr])
    /\ UNCHANGED <<device, toDevice, toClient>>

RxNext ==
    \/ CallConnect
    \/ RxArrive

SpecRx == Init /\ [][RxNext]_vars

(***************************************************************************)
(* DroneScanner.scan_opcodes driving the client, and any datagrams from    *)
(* the device.                                                             *)
(***************************************************************************)
\* What the device and the network may deliver while opcode o is probed: a
\* valid reply to the probe, the (late) reply to the previous probe, a 2-byte
\* datagram, a reply with a bad checksum followed by a stray byte, a
\* zero-length keepalive.
ScanDatagrams(o) ==
    {build_packet(o, <<>>),
     build_packet((o + NumOpcodes - 1) % NumOpcodes, <<>>),
     <<HEADER, 1>>,
     BadChecksumFrame(o) \o <<0>>,
     <<>>}

\* the first pass of the loop: op = 0 (lines 262-266)
ScanStart ==
    /\ pc = "scan"
    /\ SendCommandEntry(build_packet(op, <<>>), ScanRetries, ScanExpected(op))
    /\ UNCHANGED <<codecVars, caller, scanVars>>

\* the sleep is over: the next opcode is probed, or the loop ends
\* (lines 262-266, 286-288)
ScanNext ==
    /\ pc = "sleep"
    /\ IF op + 1 < NumOpcodes
       THEN /\ op' = op + 1
            /\ row' = NoRow
            /\ SendCommandEntry(build_packet(op + 1, <<>>), ScanRetries,
                             ScanExpected(op + 1))
       ELSE /\ pc' = "done"
            /\ UNCHANGED <<op, row, sockVars, rx_queue, callVars, netVars>>
    /\ UNCHANGED <<codecVars, caller, rowOps>>

ScanDeliver ==
    /\ \E data \in ScanDatagrams(op) : Receive(data, Peer)
    /\ UNCHANGED netVars

ScanInit ==
    /\ CodecOff
    /\ ClientInit
    /\ ScanIdle
    /\ NetAny
    /\ caller = "scan"
    /\ pc = "scan"

ScanStep ==
    \/ ScanStart
    \/ ConnectDone
    \/ ConnectFails
    \/ FirstAttempt
    \/ WaitRecv
    \/ WaitTimeout
    \/ Tick
    \/ ScanDeliver
    \/ ScanNext

SpecScan == ScanInit /\ [][ScanStep]_vars

(***************************************************************************)
(* MockDrone (src/mock_device.py) and a scan against it.                   *)
(***************************************************************************)
\* struct.pack of an unsigned 16-bit value, little-endian ("<H")
PackU16LE(v) == <<v % 256, v \div 256>>

\* the e with 2^e <= num/den < 2^(e+1), looked for from e on (num/den >= 1)
RECURSIVE FloatExp(_, _, _)
FloatExp(num, den, e) ==
    IF num < TwoTo(e + 1) * den THEN e ELSE FloatExp(num, den, e + 1)

\* struct.pack of the float num/den ("<f"): IEEE 754 binary32, little-endian,
\* for a value >= 1 that binary32 holds exactly
PackF32LE(num, den) ==
    LET e    == FloatExp(num, den, 0)
        unit == TwoTo(e) * den
        mant == ((num - unit) * TwoTo(23)) \div unit
        bits == (e + 127) * TwoTo(23) + mant
    IN  <<bits % 256, (bits \div 256) % 256, (bits \div 65536) % 256,
          bits \div 16777216>>

\* struct.pack("<BHfB", 85, 14000, 15.5, 0)
TelemetryPayload == <<85>> \o PackU16LE(14000) \o PackF32LE(31, 2) \o <<0>>

\* MockDrone.build_packet: struct.pack("<BBB", HEADER, length, opcode) raises
\* struct.error when a value does not fit an unsigned byte
MockBuildRaises(opcode, payload) ==
    \/ 1 + Len(payload) > ByteMax
    \/ opcode \notin Byte

\* mutant of mock_build_packet: the checksum leaves the header out
mock_build_packet_no_header(opcode, payload) ==
    LET length   == 1 + Len(payload)
        body     == <<MockHEADER, length, opcode>> \o payload
        checksum == XorFold(0, body, 2)
    IN  Append(body, checksum)

\* MockDrone.build_packet: its own copy of the framing
mock_build_packet(opcode, payload) ==
    LET length   == 1 + Len(payload)
        body     == <<MockHEADER, length, opcode>> \o payload
        checksum == XorFold(0, body, 1)
    IN  Append(body, checksum)

\* mutant of handle_command: only GET_TELEMETRY is answered
handle_command_telemetry_only(opcode) ==
    IF opcode = 17 THEN Some(mock_build_packet(opcode, TelemetryPayload))
    ELSE None

\* MockDrone.handle_command: the reply, or None
handle_command(opcode) ==
    IF opcode = 17 THEN Some(mock_build_packet(opcode, TelemetryPayload))
    ELSE IF opcode = 16 THEN Some(mock_build_packet(opcode, <<1>>))
    ELSE None

\* the checks of MockDrone.datagram_received before it handles a request
MockAccepts(data) ==
    /\ ~(Len(data) < 4)
    /\ ~(data[1] # MockHEADER)

\* MockDrone.datagram_received: the reply it sends, or None
mock_datagram_received(data) ==
    IF MockAccepts(data) THEN handle_command(data[3]) ELSE None

\* the mock's event loop runs datagram_received on the next request
MockReceive ==
    /\ toDevice # <<>>
    /\ LET response == mock_datagram_received(Head(toDevice))
       IN  toClient' = IF response # None /\ response[1] # <<>>
                       THEN Append(toClient, response[1])
                       ELSE toClient
    /\ toDevice' = Tail(toDevice)
    /\ UNCHANGED <<codecVars, sockVars, rx_queue, pc, caller, callVars, scanVars,
                   device, arrived>>

\* the mock's reply reaches the client's socket
MockDeliver ==
    /\ toClient # <<>>
    /\ Receive(Head(toClient), Peer)
    /\ toClient' = Tail(toClient)
    /\ UNCHANGED <<device, toDevice, arrived>>

\* the clock advances; nothing in flight is delayed beyond the timeout of
\* the attempt that is waiting for it
MockTick ==
    /\ (toDevice = <<>> /\ toClient = <<>>) \/ waitLeft > 1
    /\ Tick

MockScanInit ==
    /\ CodecOff
    /\ ClientInit
    /\ ScanIdle
    /\ device = "mock"
    /\ toDevice = <<>>
    /\ toClient = <<>>
    /\ arrived = <<>>
    /\ caller = "scan"
    /\ pc = "scan"

MockScanStep ==
    \/ ScanStart
    \/ ConnectDone
    \/ ConnectFails
    \/ FirstAttempt
    \/ WaitRecv
    \/ WaitTimeout
    \/ MockTick
    \/ MockReceive
    \/ MockDeliver
    \/ ScanNext

SpecMockScan == MockScanInit /\ [][MockScanStep]_vars

(***************************************************************************)
(* Properties of send_command (checked under Spec).                        *)
(***************************************************************************)
Returned == pc = "returned"
ReturnedData == Returned /\ result.kind = "data"
ReturnedNone == Returned /\ result.kind = "none"
TimedOut == pc = "wait" /\ waitLeft <= 0

\* C2 (correlation filter): with expected_opcode set, a datagram of at least
\* 3 bytes whose byte at offset 2 differs is never returned and, once taken
\* from the queue, is in the queue no more and is not returned by a later
\* call; the call returns the first datagram queued within the attempt's
\* time that carries the expected opcode (or is too short to carry one), and
\* an attempt in which one was queued in time does not time out.
C2_CorrelationFilter ==
    /\ (ReturnedData /\ expected_opcode # None /\ Len(result.entry.data) >= 3) =>
           result.entry.data[3] = expected_opcode[1]
    /\ \A i \in 1..Len(rx_queue) : ~rx_queue[i].pulled
    /\ ReturnedData => ~result.entry.pulled
    /\ ReturnedData => firstOk = Some(result.entry.data)
    /\ (TimedOut \/ ReturnedNone) => firstOk = None

\* C2 witness: a call with an expected opcode dropped a mismatched datagram
\* and then returned a frame carrying the expected opcode.
C2_Witness ==
    /\ ReturnedData
    /\ expected_opcode # None
    /\ sawMismatch
    /\ Len(result.entry.data) >= 3
    /\ result.entry.data[3] = expected_opcode[1]

\* C3 (stale flush): no datagram survives a transmit in the queue, so the
\* datagram an attempt returns was never queued before that attempt's
\* transmit.
C3_StaleFlush ==
    /\ \A i \in 1..Len(rx_queue) : ~rx_queue[i].stale
    /\ ReturnedData => ~result.entry.stale

\* C3 witness: a call whose flush discarded queued datagrams returned a
\* datagram.
C3_Witness ==
    /\ ReturnedData
    /\ flushedAny

\* C6 (timeout budget): a send_command call with retries = 1 never lasts
\* more than twice the timeout, and when it returns None it has lasted at
\* least one timeout and has transmitted twice.
C6_TimeoutBudget ==
    (retries = 1 /\ pc \in {"wait", "returned"}) =>
        /\ callElapsed <= 2 * TimeoutTicks
        /\ ReturnedNone =>
              /\ callElapsed >= TimeoutTicks
              /\ txCount = 2

\* C6 witness: a call with retries = 1 that only saw mismatched traffic
\* returned None.
C6_Witness ==
    /\ ReturnedNone
    /\ retries = 1
    /\ sawMismatch
    /\ callElapsed >= TimeoutTicks

\* the packets transmitted by the call in progress or just over: one per
\* attempt begun, never more than retries + 1, all of them when the call
\* returned None; a call that raised had not transmitted
TransmitCount ==
    /\ (pc = "wait") => (txCount = attempt + 1 /\ attempt <= retries)
    /\ (pc \in {"wait", "returned"}) => (txCount <= retries + 1)
    /\ ReturnedNone => (txCount = retries + 1)
    /\ (Returned /\ result.kind = "raised") => (txCount = 0)
    /\ (Returned /\ result.kind # "raised" /\ firstOk = None) =>
           (result = NoneResult /\ txCount = retries + 1)

\* C13 (retry exhaustion): send_command transmits once per attempt and at
\* most retries + 1 times; the step that returns a datagram transmits
\* nothing, and nothing is transmitted but when an attempt begins; a call in
\* which no attempt got an acceptable datagram has transmitted retries + 1
\* times and returns None, a value.
C13_RetryExhaustion ==
    /\ []TransmitCount
    /\ [][/\ (txCount' > txCount) =>
                 (pc' = "wait" /\ txCount' = txCount + 1 /\ txCount' = attempt' + 1)
          /\ (pc = "wait" /\ pc' = "returned") => (txCount' = txCount)]_vars

\* C13 witness: a call with the largest retries, whose flush had discarded
\* a datagram, ran out of attempts and returned None.
C13_Witness ==
    /\ ReturnedNone
    /\ retries = MaxRetries
    /\ txCount = MaxRetries + 1
    /\ flushedAny

\* an arrival the receive filter is meant to keep: not empty, and sent from
\* the host and the port of the configured peer
KeptArrival(a) ==
    /\ a.data # <<>>
    /\ a.addr[1] = Peer[1]
    /\ a.addr[2] = Peer[2]

\* C14 (receive filter): the inbound queue holds exactly the datagrams that
\* arrived non-empty from the configured peer (ip, port), whatever their
\* content, in the order of their arrival; so none of its datagrams is empty
\* or came from another sender.
C14_ReceiveFilter ==
    LET kept == SelectSeq(arrived, KeptArrival)
    IN  /\ Len(rx_queue) = Len(kept)
        /\ \A i \in 1..Len(rx_queue) :
              /\ rx_queue[i].data = kept[i].data
              /\ rx_queue[i].data # <<>>

\* C14 witness: a datagram from another sender and an empty datagram from
\* the peer were dropped, and a datagram that is no frame was queued before
\* a valid frame.
C14_Witness ==
    /\ Len(rx_queue) = 2
    /\ rx_queue[1].data = <<HEADER, 1>>
    /\ parse_frame(rx_queue[2].data).is_valid
    /\ Len(arrived) = 3
    /\ \E i \in 1..Len(arrived) : ~KeptArrival(arrived[i])

\* C15 (close is idempotent and total): a call of close() leaves no socket
\* handle and an empty inbound queue; it closes the socket the handle named,
\* once, and nothing when there was no handle, in which case (never
\* connected, or closed just before) handle, sockets and queue are as they
\* were; no socket is ever closed twice.
C15_CloseIdempotent ==
    /\ [](\A i \in 1..Len(socks) : socks[i] <= 1)
    /\ [][CallClose =>
             /\ transport' = 0
             /\ rx_queue' = <<>>
             /\ Len(socks') = Len(socks)
             /\ \A i \in 1..Len(socks) :
                   socks'[i] = IF i = transport THEN 1 ELSE socks[i]
             /\ (transport = 0) => (socks' = socks /\ rx_queue' = rx_queue)]_vars

\* C15 witness: two sockets were opened one after the other, each has been
\* closed once, and close() has left the client with no handle.
C15_Witness ==
    /\ pc = "idle"
    /\ transport = 0
    /\ rx_queue = <<>>
    /\ socks = <<1, 1>>

\* the sockets this client has opened and not closed
OpenSockets == {i \in 1..Len(socks) : socks[i] = 0}

\* C16 (connect is idempotent): the open sockets are the one the handle
\* names, if any, so there is at most one and every other socket the client
\* opened has been closed; connect() with a handle present opens nothing and
\* keeps the handle; a socket is opened only while there is no handle, and
\* it becomes the handle.
C16_ConnectIdempotent ==
    /\ [](/\ OpenSockets = IF transport = 0 THEN {} ELSE {transport}
          /\ Cardinality(OpenSockets) <= 1)
    /\ [][/\ (CallConnect /\ transport # 0) => (socks' = socks /\ transport' = transport)
          /\ (Len(socks') > Len(socks)) =>
                 /\ transport = 0
                 /\ socks' = Append(socks, 0)
                 /\ transport' = Len(socks')]_vars

\* C16 witness: after a first socket was closed, a send_command connected
\* again; the client holds the second socket and waits for the reply.
C16_Witness ==
    /\ pc = "wait"
    /\ socks = <<1, 0>>
    /\ transport = 2

\* while an attempt waits, the time it may still wait is what is left of
\* one timeout counted from its transmit, and the call has lasted no more
\* than one timeout for each attempt begun
DeadlineKept ==
    /\ (pc = "wait") =>
           /\ elapsed <= TimeoutTicks
           /\ waitLeft + elapsed = TimeoutTicks
           /\ attempt <= retries
           /\ callElapsed <= attempt * TimeoutTicks + elapsed
    /\ (Returned /\ result.kind # "raised") =>
           callElapsed <= (retries + 1) * TimeoutTicks
    /\ (ReturnedNone /\ txCount > 0) =>
           callElapsed = (retries + 1) * TimeoutTicks

\* C21 (deadline not extended by mismatched traffic): the time an attempt
\* may still wait never grows while the attempt lasts, whatever is taken
\* from the queue and dropped; it is always what is left of one timeout
\* since the transmit; so a call that gets only mismatched datagrams returns
\* None after exactly retries + 1 timeouts.
C21_DeadlineNotExtended ==
    /\ []DeadlineKept
    /\ [][(pc = "wait" /\ pc' = "wait" /\ attempt' = attempt) =>
              /\ waitLeft' <= waitLeft
              /\ elapsed' >= elapsed]_vars

\* C21 witness: an attempt with an expected opcode dropped a mismatched
\* datagram and is out of time one timeout after its transmit.
C21_Witness ==
    /\ pc = "wait"
    /\ expected_opcode # None
    /\ sawMismatch
    /\ waitLeft = 0
    /\ elapsed = TimeoutTicks

(***************************************************************************)
(* Properties of scan_opcodes (checked under SpecScan / SpecScanFair).     *)
(***************************************************************************)
RowWritten == pc = "sleep"

\* C4 (no cross-probe misattribution): the row written for opcode op records
\* the datagram send_command returned to that probe; a returned datagram of
\* at least 3 bytes carries op at offset 2; a row classified VALID has the
\* response opcode op.
C4_NoMisattribution ==
    RowWritten =>
        /\ row.opcode_hex = op
        /\ row = ScanRowOf(op, result, row.rtt_ms)
        /\ (result.kind = "data" /\ Len(result.entry.data) >= 3) =>
               result.entry.data[3] = row.opcode_hex
        /\ (row.status = "VALID") => (row.rx_opcode = Some(row.opcode_hex))
        /\ (row.status # "TIMEOUT" /\ row.rx_len >= 3) =>
               (row.rx_opcode = Some(row.opcode_hex))

\* C4 witness: during the probe of an opcode after the first, a datagram
\* carrying another opcode was dropped, and the row then written is VALID.
C4_Witness ==
    /\ RowWritten
    /\ op > 0
    /\ sawMismatch
    /\ row.status = "VALID"
    /\ row.rx_opcode = Some(op)

ScanOver == pc \in {"done", "fatal"}

\* the rows written so far are those of opcodes 0, 1, 2, ... in this order,
\* and there is one for every probe that has returned
RowsInOrder ==
    /\ \A i \in 1..Len(rowOps) : rowOps[i] = i - 1
    /\ (pc \in {"connecting", "connected", "wait"}) => (Len(rowOps) = op)
    /\ RowWritten => (Len(rowOps) = op + 1)
    /\ (pc = "done") => (Len(rowOps) = NumOpcodes)
    /\ (pc = "fatal") => (transport = 0 /\ rowOps = <<>>)

\* What is left of the scan, as a number: the opcodes still to probe, then
\* the position in the current probe, the attempts and the ticks left of it,
\* the datagrams that may still arrive before the next tick, the datagrams
\* still to take from the queue.
VariantInTick == (MaxBurst + 1) * (MaxQueue + 1)
VariantInCall == (ScanRetries + 1) * (TimeoutTicks + 1) * VariantInTick
VariantInProbe == VariantInCall + 2 * (MaxQueue + 1) + 2

ProbeVariant ==
    CASE pc = "sleep"      -> MaxQueue - Len(rx_queue)
      [] pc = "wait"       -> (MaxQueue + 1)
                                + ((retries - attempt) * (TimeoutTicks + 1) + waitLeft)
                                      * VariantInTick
                                + (MaxBurst - burst) * (MaxQueue + 1)
                                + Len(rx_queue)
      [] pc = "connected"  -> (MaxQueue + 1) + VariantInCall
                                + (MaxQueue - Len(rx_queue))
      [] pc = "connecting" -> VariantInCall + 2 * (MaxQueue + 1)
      [] OTHER             -> VariantInCall + 2 * (MaxQueue + 1) + 1

Variant ==
    IF ScanOver THEN 0
    ELSE (NumOpcodes - 1 - op) * VariantInProbe + ProbeVariant + 1

\* the guards of ScanStart, ConnectFails, FirstAttempt, ScanNext, WaitTimeout,
\* WaitRecv and Tick: the program, or the clock it waits for, can take a step
CanStep ==
    \/ pc \in {"scan", "connecting", "connected", "sleep"}
    \/ /\ pc = "wait"
       /\ \/ waitLeft <= 0
          \/ rx_queue # <<>>
          \/ callElapsed <= (MaxRetries + 1) * TimeoutTicks

\* C5 (scan completeness and order): whatever the device and the network
\* deliver, the rows written are those of opcodes 0, 1, 2, ... in ascending
\* order, one each; until the scan is over the program can take a step, and
\* every step brings the end nearer, so the scan ends; once the socket is
\* open it ends only with all 256 rows written.
C5_ScanComplete ==
    /\ []RowsInOrder
    /\ [](Variant \in Nat)
    /\ [](~ScanOver => CanStep)
    /\ [][Variant' < Variant]_vars

\* C5 witness: the sweep is complete and its last row is that of a
\* malformed response.
C5_Witness ==
    /\ pc = "done"
    /\ Len(rowOps) = NumOpcodes
    /\ row.status = "INVALID_FMT"

\* C11 (scan classification): the row written for a probe is TIMEOUT exactly
\* when send_command returned no response, and its response fields are then
\* empty with length 0; for a response the row is VALID exactly when
\* parse_frame of the response is valid, and INVALID_FMT (the code's label
\* of the invalid-format class) otherwise.
C11_ScanClassification ==
    RowWritten =>
        /\ row.status \in {"TIMEOUT", "VALID", "INVALID_FMT"}
        /\ (row.status = "TIMEOUT") <=> (result.kind = "none")
        /\ (row.status = "TIMEOUT") =>
               /\ row.rx_len = 0
               /\ row.rx_opcode = None
               /\ row.rx_payload_hex = <<>>
               /\ row.trailing_bytes = None
               /\ row.error_msg = None
        /\ (result.kind = "data") =>
               /\ result.entry.data # <<>>
               /\ (row.status = "VALID") <=> parse_frame(result.entry.data).is_valid

\* C11 witness: a response that does not parse as valid was returned to a
\* probe and its row is INVALID_FMT.
C11_Witness ==
    /\ RowWritten
    /\ result.kind = "data"
    /\ ~parse_frame(result.entry.data).is_valid
    /\ row.status = "INVALID_FMT"

\* C12 (scan against the mock device): with no probe or reply lost or
\* delayed beyond the timeout, the rows of opcodes 0x10 and 0x11 are VALID
\* with the probed opcode as response opcode, the row of every other opcode
\* is TIMEOUT, the rows come in ascending order of opcode, and the finished
\* scan has written 256 rows.
C12_MockScan ==
    /\ RowWritten =>
           IF op \in {16, 17}
           THEN row.status = "VALID" /\ row.rx_opcode = Some(op)
           ELSE row.status = "TIMEOUT"
    /\ \A i \in 1..Len(rowOps) : rowOps[i] = i - 1
    /\ (pc = "done") => (Len(rowOps) = NumOpcodes)

\* C12 witness: the scan against the mock wrote the VALID row of opcode 0x11
\* with the 8-byte telemetry payload, after the rows of opcodes 0..0x10.
C12_Witness ==
    /\ RowWritten
    /\ device = "mock"
    /\ op = 17
    /\ Len(rowOps) = 18
    /\ row.status = "VALID"
    /\ Len(row.rx_payload_hex) = 16

\* an Error_Msg cell with nothing in it
EmptyMessage(cell) == cell = None \/ cell = Some(Msg("", 0, 0))

\* the Error_Msg cell of an INVALID_FMT row is the message of the parsed
\* response, one of the four messages of a frame that is not valid
InvalidRowMessage ==
    (RowWritten /\ row.status = "INVALID_FMT") =>
        /\ row.error_msg = Some(parse_frame(result.entry.data).error_msg)
        /\ ~EmptyMessage(row.error_msg)
        /\ row.error_msg[1].kind \in
               {"Frame too short", "Truncated", "Bad Header", "Bad Checksum"}

\* C20 (scan row error message), as claimed: a VALID row has an empty
\* error-message field and an INVALID_FMT row has the parsed frame's
\* non-empty message. It does not hold: a valid frame's message is "OK".
C20_Original ==
    /\ (RowWritten /\ row.status = "VALID") => EmptyMessage(row.error_msg)
    /\ InvalidRowMessage

\* C20 (scan row error message), amended: a VALID row carries the message
\* "OK" of the valid frame and an INVALID_FMT row carries the parsed frame's
\* non-empty error message.
C20_Amended ==
    /\ (RowWritten /\ row.status = "VALID") =>
           /\ row.error_msg = Some(Msg("OK", 0, 0))
           /\ row.error_msg = Some(parse_frame(result.entry.data).error_msg)
    /\ InvalidRowMessage

\* C20 witness: the row of a valid response was written, with the message
\* "OK" in its Error_Msg cell.
C20_Witness ==
    /\ RowWritten
    /\ row.status = "VALID"
    /\ row.error_msg # None
    /\ row.error_msg[1].kind = "OK"

(***************************************************************************)
(* Codec harness: inputs drawn from bounded sets, one action per use of    *)
(* build_packet / parse_frame.                                             *)
(***************************************************************************)
RECURSIVE SeqsUpTo(_, _)
SeqsUpTo(S, n) ==
    IF n = 0 THEN {<<>>}
    ELSE LET shorter == SeqsUpTo(S, n - 1)
         IN  shorter \cup {Append(s, x) : s \in {t \in shorter : Len(t) = n - 1}, x \in S}

Fill(n, b) == [i \in 1..n |-> b]

\* payload bytes enumerated exhaustively
PayloadBytes == {0, HEADER, ByteMax}
\* payload lengths around the largest one struct.pack accepts
LongLens == {252, 254, 255}
LongOps == {17}
\* bytes of the raw inputs: enough to spell valid and invalid frames
RawBytes == {0, 1, 2, 84, HEADER}

ShortPayloads == SeqsUpTo(PayloadBytes, MaxPayloadLen)
LongPayloads == {Fill(n, ByteMax) : n \in LongLens}
RawInputs == SeqsUpTo(RawBytes, MaxRawLen)


CodecInit ==
    /\ ClientInit
    /\ ScanIdle
    /\ NetAny
    /\ caller = "user"
    /\ pc = "off"
    /\ cFrame = NoFrame
    /\ cArg = NoArg
    /\ cOut = None
    /\ \/ /\ cPc = "input"
          /\ cData = <<>>
          /\ \/ cOp \in Byte /\ cPayload \in ShortPayloads
             \/ cOp \in LongOps /\ cPayload \in LongPayloads
       \/ /\ cPc = "raw"
          /\ cOp = 0
          /\ cPayload = <<>>
          /\ cData \in RawInputs

\* data with bit `bit` of the byte at 0-based offset `byte` inverted
FlipBit(data, byte, bit) ==
    [data EXCEPT ![byte + 1] = Xor(data[byte + 1], 2 ^ bit)]

CodecBuild ==
    /\ cPc = "input"
    /\ IF BuildRaises(cOp, cPayload)
       THEN cPc' = "raised" /\ cData' = cData
       ELSE cPc' = "built" /\ cData' = build_packet(cOp, cPayload)
    /\ UNCHANGED <<cOp, cPayload, cFrame, cArg, cOut, clientVars>>

CodecParseBuilt ==
    /\ cPc = "built"
    /\ cFrame' = parse_frame(cData)
    /\ cPc' = "parsed"
    /\ UNCHANGED <<cOp, cPayload, cData, cArg, cOut, clientVars>>

CodecParseFlipped ==
    /\ cPc = "built"
    /\ \E byte \in 0..(Len(cData) - 1), bit \in 0..7 :
          /\ cData' = FlipBit(cData, byte, bit)
          /\ cArg' = [NoArg EXCEPT !.byte = byte, !.bit = bit]
          /\ cFrame' = parse_frame(cData')
    /\ cPc' = "flipped"
    /\ UNCHANGED <<cOp, cPayload, cOut, clientVars>>

CodecParseTruncated ==
    /\ cPc = "built"
    /\ \E k \in 0..(Len(cData) - 1) :
          /\ cData' = Slice(cData, 0, k)
          /\ cArg' = [NoArg EXCEPT !.k = k]
          /\ cFrame' = parse_frame(cData')
    /\ cPc' = "truncated"
    /\ UNCHANGED <<cOp, cPayload, cOut, clientVars>>

CodecParseRaw ==
    /\ cPc = "raw"
    /\ cFrame' = parse_frame(cData)
    /\ cPc' = "rawparsed"
    /\ UNCHANGED <<cOp, cPayload, cData, cArg, cOut, clientVars>>

CodecNext ==
    \/ CodecBuild
    \/ CodecParseBuilt
    \/ CodecParseFlipped
    \/ CodecParseTruncated
    \/ CodecParseRaw

SpecCodec == CodecInit /\ [][CodecNext]_vars

(***************************************************************************)
(* The body of the scan loop on a given response: rx_bytes drawn from the  *)
(* raw inputs, parsed and written as a row.                                *)
(***************************************************************************)
RowInit ==
    /\ ClientInit
    /\ ScanIdle
    /\ NetAny
    /\ caller = "user"
    /\ pc = "off"
    /\ cFrame = NoFrame
    /\ cArg = NoArg
    /\ cOut = None
    /\ cPc = "raw"
    /\ cOp = 0
    /\ cPayload = <<>>
    /\ cData \in RawInputs

\* rx_bytes = cData: the frame parse_frame returns for it, and the row the
\* loop body writes for it (lines 268-281)
RowOfResponse ==
    /\ cPc = "raw"
    /\ cFrame' = parse_frame(cData)
    /\ row' = ScanRowOf(op, DataResult(Entry(cData)), 0)
    /\ rowOps' = WriteRow(rowOps, op, DataResult(Entry(cData)))
    /\ cPc' = "rowed"
    /\ UNCHANGED <<cOp, cPayload, cData, cArg, cOut, sockVars, rx_queue, pc,
                   caller, callVars, op, netVars>>

SpecRow == RowInit /\ [][RowOfResponse]_vars

(***************************************************************************)
(* decode_telemetry on its own: payloads drawn from bounded sets.          *)
(***************************************************************************)
\* the longest payload handed to decode_telemetry
MaxTelemetryLen == 9

\* binary32 values, as the four little-endian bytes of a payload: 15.5, 0.0,
\* 0.125 and 0.375 (ties of the rounding), -2.675 as binary32, 2^-149,
\* 2^-7 - 2^-31, 2^24, infinity, a NaN
FloatSamples ==
    {<<0, 0, 120, 65>>, <<0, 0, 0, 0>>, <<0, 0, 0, 62>>, <<0, 0, 192, 62>>,
     <<51, 51, 43, 192>>, <<1, 0, 0, 0>>, <<255, 255, 255, 59>>,
     <<0, 0, 128, 75>>, <<0, 0, 128, 127>>, <<1, 0, 192, 255>>}

\* 8-byte payloads
TelemetryPayloads ==
    {<<bat, lo, hi>> \o alt \o <<err>> :
        bat \in {0, 85, ByteMax}, lo \in {0, 176}, hi \in {54, ByteMax},
        alt \in FloatSamples, err \in {0, 10, 16, ByteMax}}

\* payloads of every other length up to MaxTelemetryLen
OtherPayloads ==
    {p \in SeqsUpTo({0, 171}, MaxTelemetryLen) : Len(p) # 8}

TelemetryInit ==
    /\ ClientInit
    /\ ScanIdle
    /\ NetAny
    /\ caller = "user"
    /\ pc = "off"
    /\ cFrame = NoFrame
    /\ cArg = NoArg
    /\ cOut = None
    /\ cPc = "telemetry"
    /\ cOp = 0
    /\ cData = <<>>
    /\ cPayload \in TelemetryPayloads \cup OtherPayloads

TelemetryDecode ==
    /\ cPc = "telemetry"
    /\ cOut' = decode_telemetry(cPayload)
    /\ cPc' = "decoded"
    /\ UNCHANGED <<cOp, cPayload, cData, cFrame, cArg, clientVars>>

SpecTelemetry == TelemetryInit /\ [][TelemetryDecode]_vars

(***************************************************************************)
(* MockDrone on its own: its framing, its replies, and the requests it     *)
(* handles, next to DroneProtocol on the same inputs.                      *)
(***************************************************************************)
\* bytes of the request datagrams: enough to spell the header, declared
\* lengths, the opcode of telemetry, and bytes that are none of these
MockRequestBytes == {1, 2, 17, 84, HEADER}
MockRequests == SeqsUpTo(MockRequestBytes, MaxRawLen)

MockInit ==
    /\ ClientInit
    /\ ScanIdle
    /\ NetAny
    /\ caller = "user"
    /\ pc = "off"
    /\ cFrame = NoFrame
    /\ cArg = NoArg
    /\ cOut = None
    /\ \/ /\ cPc = "input"
          /\ cData = <<>>
          /\ \/ cOp \in Byte /\ cPayload \in ShortPayloads
             \/ cOp \in LongOps /\ cPayload \in LongPayloads
       \/ /\ cPc = "request"
          /\ cOp = 0
          /\ cPayload = <<>>
          /\ cData \in MockRequests

\* both build_packet functions on the same opcode and payload: cData is
\* what DroneProtocol returns, cOut what MockDrone returns (None: raised)
MockBuild ==
    /\ cPc = "input"
    /\ cData' = IF BuildRaises(cOp, cPayload) THEN <<>>
                ELSE build_packet(cOp, cPayload)
    /\ cOut' = IF MockBuildRaises(cOp, cPayload) THEN None
               ELSE Some(mock_build_packet(cOp, cPayload))
    /\ cPc' = "mockbuilt"
    /\ UNCHANGED <<cOp, cPayload, cFrame, cArg, clientVars>>

\* handle_command on an opcode; its reply, if any, is parsed by the client
MockCommand ==
    /\ cPc = "input"
    /\ cPayload = <<>>
    /\ cOut' = handle_command(cOp)
    /\ cFrame' = IF cOut' = None THEN NoFrame ELSE parse_frame(cOut'[1])
    /\ cPc' = "commanded"
    /\ UNCHANGED <<cOp, cPayload, cData, cArg, clientVars>>

\* a request datagram given to the mock and to parse_frame
MockRequest ==
    /\ cPc = "request"
    /\ cOut' = [handled |-> MockAccepts(cData),
                response |-> mock_datagram_received(cData)]
    /\ cFrame' = parse_frame(cData)
    /\ cPc' = "handled"
    /\ UNCHANGED <<cOp, cPayload, cData, cArg, clientVars>>

MockNext ==
    \/ MockBuild
    \/ MockCommand
    \/ MockRequest

SpecMock == MockInit /\ [][MockNext]_vars

(***************************************************************************)
(* Properties of the codec (checked under SpecCodec).                      *)
(***************************************************************************)
\* The XOR of a byte string stated without the loop: bit k of the result is
\* the parity of the number of bytes that have bit k set.
ParityBit(s, k) == Cardinality({i \in 1..Len(s) : (s[i] \div (2 ^ k)) % 2 = 1}) % 2
ParityXor(s) ==
    ParityBit(s, 0) + 2 * ParityBit(s, 1) + 4 * ParityBit(s, 2) + 8 * ParityBit(s, 3)
    + 16 * ParityBit(s, 4) + 32 * ParityBit(s, 5) + 64 * ParityBit(s, 6)
    + 128 * ParityBit(s, 7)

Kind == cFrame.error_msg.kind
CodecParsedAny == cPc \in {"parsed", "flipped", "truncated", "rawparsed"}

\* C1 (round trip): for every opcode 0..255 and every payload of at most 252
\* bytes build_packet does not raise, and parse_frame of the built packet is
\* valid, with the opcode and the payload that were given and no trailing data.
C1_RoundTrip ==
    (cOp \in 0..255 /\ Len(cPayload) <= 252) =>
        /\ cPc # "raised"
        /\ cPc = "parsed" =>
              /\ cFrame.is_valid = TRUE
              /\ cFrame.opcode = cOp
              /\ cFrame.payload = cPayload
              /\ cFrame.trailing_data = <<>>

\* C1 witness: the round trip of a 252-byte payload has been parsed as valid.
C1_Witness ==
    /\ cPc = "parsed"
    /\ Len(cPayload) = 252
    /\ cFrame.is_valid
    /\ cFrame.payload = cPayload

\* C7 as stated (checksum sensitivity): every single-bit flip of a built
\* frame parses as invalid, with the checksum-mismatch message unless the
\* flipped input classifies as short or truncated.
C7_Original ==
    cPc = "flipped" =>
        /\ cFrame.is_valid = FALSE
        /\ Kind \in {"Bad Checksum", "Empty Data", "Frame too short", "Truncated"}

\* C7 amended: a flip in the header byte gives the bad-header message; a flip
\* in the opcode, a payload byte or the checksum byte gives the
\* checksum-mismatch message; a flip that raises the length byte gives the
\* truncated message; a flip that lowers the length byte to n gives the
\* checksum-mismatch message unless the byte at offset n + 2 equals the XOR
\* of the bytes before it, and then the shortened frame is reported valid
\* with the bytes cut off as trailing data.
C7_Amended ==
    cPc = "flipped" =>
        LET orig      == build_packet(cOp, cPayload)
            byte      == cArg.byte
            oldLen    == orig[2]
            newLen    == cData[2]
            prefixOk  == cData[newLen + 3] = ParityXor(SubSeq(cData, 1, newLen + 2))
        IN  /\ byte = 0 => ~cFrame.is_valid /\ Kind = "Bad Header"
            /\ byte >= 2 => ~cFrame.is_valid /\ Kind = "Bad Checksum"
            /\ (byte = 1 /\ newLen > oldLen) => ~cFrame.is_valid /\ Kind = "Truncated"
            /\ (byte = 1 /\ newLen < oldLen) =>
                  /\ cFrame.is_valid <=> prefixOk
                  /\ ~cFrame.is_valid => Kind = "Bad Checksum"
                  /\ cFrame.trailing_data = SubSeq(cData, newLen + 4, Len(cData))
                  /\ cFrame.trailing_data # <<>>

\* C7 witness: a frame with one bit of its length byte flipped has been
\* parsed and reported valid.
C7_Witness ==
    /\ cPc = "flipped"
    /\ cArg.byte = 1
    /\ cFrame.is_valid

\* C8 (truncation): the first k bytes of a built frame of n bytes, 0 <= k < n,
\* parse as invalid: empty data for k = 0, frame too short for 1 <= k <= 3,
\* truncated for 4 <= k < n; opcode 0, payload and trailing data empty.
C8_Truncation ==
    cPc = "truncated" =>
        LET k == cArg.k
        IN  /\ Len(cData) = k
            /\ k < Len(build_packet(cOp, cPayload))
            /\ cFrame.is_valid = FALSE
            /\ Kind = (IF k = 0 THEN "Empty Data"
                       ELSE IF k <= 3 THEN "Frame too short"
                       ELSE "Truncated")
            /\ cFrame.opcode = 0
            /\ cFrame.payload = <<>>
            /\ cFrame.trailing_data = <<>>

\* C8 witness: a built frame cut to at least 4 bytes was reported truncated.
C8_Witness ==
    /\ cPc = "truncated"
    /\ cArg.k >= 4
    /\ Kind = "Truncated"

\* C9 (best-effort extraction): for an input of at least 4 bytes and at least
\* input[1] + 3 bytes, opcode, payload, checksum and trailing data are the
\* bytes at their fixed places, whatever the verdict.
C9_BestEffort ==
    (CodecParsedAny /\ Len(cData) >= 4 /\ Len(cData) >= cData[2] + 3) =>
        LET length        == cData[2]
            expectedTotal == length + 3
            payloadLen    == IF length >= 1 THEN length - 1 ELSE 0
        IN  /\ cFrame.opcode = cData[3]
            /\ cFrame.payload = SubSeq(cData, 4, 3 + payloadLen)
            /\ cFrame.checksum = cData[expectedTotal]
            /\ cFrame.trailing_data = SubSeq(cData, expectedTotal + 1, Len(cData))
            /\ Kind \in {"OK", "Bad Header", "Bad Checksum"}

\* C9 witness: an input with a wrong header, a payload byte and trailing
\* bytes was parsed.
C9_Witness ==
    /\ cPc = "rawparsed"
    /\ Kind = "Bad Header"
    /\ cFrame.payload # <<>>
    /\ cFrame.trailing_data # <<>>
    /\ cFrame.opcode = cData[3]

\* C10 (verdict ladder): parse_frame reports valid exactly when the input has
\* at least 4 bytes, at least input[1] + 3 bytes, header 0x55 and the byte at
\* the checksum position equal to the XOR of the frame bytes before it; the
\* failures are reported in the order empty, too short, truncated, bad
\* header, bad checksum.
C10_VerdictLadder ==
    CodecParsedAny =>
        LET n        == Len(cData)
            sized    == n >= 4 /\ n >= cData[2] + 3
            total    == cData[2] + 3
            headerOk == cData[1] = 85
            chkOk    == cData[total] = ParityXor(SubSeq(cData, 1, total - 1))
        IN  /\ cFrame.is_valid <=> (sized /\ headerOk /\ chkOk)
            /\ Kind = (IF n = 0 THEN "Empty Data"
                       ELSE IF n < 4 THEN "Frame too short"
                       ELSE IF n < total THEN "Truncated"
                       ELSE IF ~headerOk THEN "Bad Header"
                       ELSE IF ~chkOk THEN "Bad Checksum"
                       ELSE "OK")

\* C10 witness: an input whose header and checksum are both wrong was
\* reported as bad header.
C10_Witness ==
    /\ cPc = "rawparsed"
    /\ Len(cData) >= 4
    /\ Len(cData) >= cData[2] + 3
    /\ cData[1] # 85
    /\ cData[cData[2] + 3] # ParityXor(SubSeq(cData, 1, cData[2] + 2))
    /\ Kind = "Bad Header"

\* C22 (zero declared length is malformed): an input whose length byte is 0
\* is never reported valid; every frame reported valid has
\* length = 1 + len(payload) and its opcode byte before its checksum byte.
C22_Original ==
    CodecParsedAny =>
        /\ (Len(cData) >= 2 /\ cData[2] = 0) => ~cFrame.is_valid
        /\ cFrame.is_valid =>
               /\ cFrame.length = 1 + Len(cFrame.payload)
               /\ 3 # ExpectedTotal(cFrame.length)

\* C22 divergence: a 4-byte input with header 0x55 and length byte 0 whose
\* third byte is 0x55 was reported valid, with that one byte as both the
\* opcode and the checksum, an empty payload and one trailing byte.
C22_Divergence ==
    /\ cPc = "rawparsed"
    /\ cData = <<85, 0, 85, 0>>
    /\ cFrame.is_valid
    /\ Kind = "OK"
    /\ cFrame.length = 0
    /\ cFrame.payload = <<>>
    /\ cFrame.opcode = 85
    /\ cFrame.checksum = 85
    /\ cFrame.raw = <<85, 0, 85>>
    /\ cFrame.trailing_data = <<0>>

\* C23 (no byte is lost by parsing): the frame returned for an input has
\* raw followed by trailing_data equal to the input; raw is the whole input
\* and trailing_data is empty when the input is empty, shorter than 4 bytes
\* or shorter than its declared length asks for, and raw is the first
\* length + 3 bytes otherwise; in a row that is not TIMEOUT the response
\* length plus the trailing-byte count is the size of the datagram.
C23_NoByteLost ==
    (cPc = "rowed") =>
        LET n     == Len(cData)
            short == n < 4 \/ n < cData[2] + 3
        IN  /\ cFrame.raw \o cFrame.trailing_data = cData
            /\ short => (cFrame.raw = cData /\ cFrame.trailing_data = <<>>)
            /\ ~short =>
                   /\ Len(cFrame.raw) = cData[2] + 3
                   /\ \A i \in 1..(cData[2] + 3) : cFrame.raw[i] = cData[i]
                   /\ Len(cFrame.trailing_data) = n - (cData[2] + 3)
            /\ (row.status # "TIMEOUT") =>
                   /\ row.trailing_bytes # None
                   /\ row.rx_len + row.trailing_bytes[1] = n
                   /\ row.rx_len = Len(cFrame.raw)

\* C23 witness: a datagram holding a valid frame and bytes after it got a
\* VALID row whose length and trailing-byte count add up to its size.
C23_Witness ==
    /\ cPc = "rowed"
    /\ cFrame.is_valid
    /\ cFrame.trailing_data # <<>>
    /\ row.status = "VALID"
    /\ row.rx_len < Len(cData)
    /\ row.trailing_bytes = Some(Len(cData) - row.rx_len)

(***************************************************************************)
(* Properties of decode_telemetry (checked under SpecTelemetry).           *)
(***************************************************************************)
\* the value of a hexadecimal character, in either case
HexValue(c) ==
    CASE c = "0" -> 0 [] c = "1" -> 1 [] c = "2" -> 2 [] c = "3" -> 3
      [] c = "4" -> 4 [] c = "5" -> 5 [] c = "6" -> 6 [] c = "7" -> 7
      [] c = "8" -> 8 [] c = "9" -> 9 [] c = "a" -> 10 [] c = "b" -> 11
      [] c = "c" -> 12 [] c = "d" -> 13 [] c = "e" -> 14 [] c = "f" -> 15

\* the rounded altitude of some of the sample values, worked out by hand:
\* 15.5 -> 15.50, 0.125 -> 0.12, 0.375 -> 0.38, -2.675 (binary32:
\* -2.67499995...) -> -2.67, 2^-7 - 2^-31 -> 0.01, 2^-149 -> 0.00
AltitudeByHand(b) ==
    CASE b = <<0, 0, 120, 65>>      -> 1550
      [] b = <<0, 0, 0, 62>>        -> 12
      [] b = <<0, 0, 192, 62>>      -> 38
      [] b = <<51, 51, 43, 192>>    -> 267
      [] b = <<255, 255, 255, 59>>  -> 1
      [] b = <<1, 0, 0, 0>>         -> 0
      [] OTHER                      -> cOut.altitude.hundredths

\* C17 (telemetry decode): decode_telemetry returns a value for every
\* payload; for 8 bytes the value has the keys battery, voltage, altitude,
\* errors and no other, with battery byte 0, voltage the little-endian
\* 16-bit value of bytes 1..2, altitude the rounded binary32 value of bytes
\* 3..6 and errors the hex() of byte 7; for any other length it has the keys
\* error and raw only, error being size_mismatch and raw the lower-case hex
\* of the whole payload.
C17_TelemetryDecode ==
    (cPc = "decoded") =>
        IF Len(cPayload) = 8 THEN
            /\ DOMAIN cOut = {"battery", "voltage", "altitude", "errors"}
            /\ cOut.battery = cPayload[1]
            /\ cOut.voltage % 256 = cPayload[2]
            /\ cOut.voltage \div 256 = cPayload[3]
            /\ cOut.altitude = RoundedFloat32(<<cPayload[4], cPayload[5],
                                               cPayload[6], cPayload[7]>>)
            /\ cOut.altitude.hundredths = AltitudeByHand(SubSeq(cPayload, 4, 7))
            /\ Len(cOut.errors) = IF cPayload[8] < 16 THEN 3 ELSE 4
            /\ cOut.errors[1] = "0"
            /\ cOut.errors[2] = "x"
            /\ cPayload[8] =
                 IF cPayload[8] < 16 THEN HexValue(cOut.errors[3])
                 ELSE 16 * HexValue(cOut.errors[3]) + HexValue(cOut.errors[4])
        ELSE
            /\ DOMAIN cOut = {"error", "raw"}
            /\ cOut.error = "size_mismatch"
            /\ Len(cOut.raw) = 2 * Len(cPayload)
            /\ \A i \in 1..Len(cPayload) :
                  cPayload[i] = 16 * HexValue(cOut.raw[2 * i - 1])
                                  + HexValue(cOut.raw[2 * i])

\* C17 witness: the telemetry payload of the mock was decoded: battery 85,
\* 14000 mV, altitude 15.50, errors "0x0".
C17_Witness ==
    /\ cPc = "decoded"
    /\ cPayload = <<85, 176, 54, 0, 0, 120, 65, 0>>
    /\ cOut.battery = 85
    /\ cOut.voltage = 14000
    /\ cOut.altitude.hundredths = 1550
    /\ cOut.errors = <<"0", "x", "0">>

(***************************************************************************)
(* Properties of MockDrone (checked under SpecMock).                       *)
(***************************************************************************)
\* parse_frame passed the size, declared-length and header checks
PassesFraming(frame) ==
    frame.error_msg.kind \notin {"Empty Data", "Frame too short", "Truncated",
                                 "Bad Header"}

\* C18 (mock request validation), as claimed: the mock handles a request
\* datagram only if parse_frame passes its size, declared-length and header
\* checks. It does not hold: the mock never looks at the declared length.
C18_Original ==
    (cPc = "handled" /\ cOut.handled) => PassesFraming(cFrame)

\* C18, the scenario of the divergence: a 4-byte request with the header
\* and a declared length of 2 is truncated for parse_frame, and the mock
\* handles it and replies with telemetry.
C18_Divergence ==
    /\ cPc = "handled"
    /\ cData = <<HEADER, 2, 17, 1>>
    /\ cFrame.error_msg.kind = "Truncated"
    /\ cOut.handled
    /\ cOut.response # None

\* C19 (mock reply wire format): MockDrone.build_packet returns what
\* DroneProtocol.build_packet returns, and raises when it raises; the reply
\* to 0x11 parses as a valid frame of opcode 0x11 with no trailing data and
\* an 8-byte payload that decode_telemetry decodes without an error key; the
\* reply to 0x10 parses as a valid frame of opcode 0x10 with a 1-byte
\* payload; no other opcode is replied to.
C19_MockWireFormat ==
    /\ (cPc = "mockbuilt") =>
           cOut = IF BuildRaises(cOp, cPayload) THEN None ELSE Some(cData)
    /\ (cPc = "commanded") =>
           IF cOp = 17 THEN
               /\ cOut # None
               /\ cFrame.is_valid
               /\ cFrame.opcode = 17
               /\ cFrame.trailing_data = <<>>
               /\ Len(cFrame.payload) = 8
               /\ "error" \notin DOMAIN decode_telemetry(cFrame.payload)
           ELSE IF cOp = 16 THEN
               /\ cOut # None
               /\ cFrame.is_valid
               /\ cFrame.opcode = 16
               /\ cFrame.trailing_data = <<>>
               /\ Len(cFrame.payload) = 1
           ELSE cOut = None

\* C19 witness: the mock's reply to 0x11 was parsed and its payload decodes
\* to the readings the mock packed.
C19_Witness ==
    /\ cPc = "commanded"
    /\ cOp = 17
    /\ cOut # None
    /\ cFrame.is_valid
    /\ decode_telemetry(cFrame.payload).voltage = 14000
    /\ decode_telemetry(cFrame.payload).altitude.hundredths = 1550

====
